---- MODULE Spec2Model ----
(***************************************************************************)
(* EDID Calculator backend (src/backend/app/main.py): a FastAPI process    *)
(* that relays POST /api/gemini/analyze to the Gemini service and serves   *)
(* GET /health and GET /.                                                  *)
(*                                                                         *)
(* Python values are encoded as follows.  An optional value is a sequence  *)
(* of length 0 (None) or 1 (the value).  A dict is a set of <<key, value>> *)
(* pairs.  A list is a sequence.  An exception is a record with            *)
(* raised = TRUE and the text str(e) in reason.                            *)
(***************************************************************************)
EXTENDS FiniteSets, Integers, Sequences, TLC

VARIABLES
    environ,          \* what the process found at import time: the value of
                      \* the GEMINI_API_KEY environment variable and whether
                      \* genai.Client(...) raised
    GEMINI_API_KEY,   \* module global, line 41
    client,           \* module global, lines 47/51 (may never be bound)
    requests,         \* per HTTP client: the request it has outstanding
    calls,            \* per HTTP client: outbound generate_content calls
                      \* issued on behalf of its current request
    replies,          \* per HTTP client: what generate_content produced
    responses,        \* per HTTP client: the HTTP response sent back
    served            \* number of requests accepted so far

vars == <<environ, GEMINI_API_KEY, client, requests, calls, replies, responses, served>>

(***************************************************************************)
(* Bounds                                                                  *)
(***************************************************************************)
MaxRequests == 3      \* requests accepted in one run
MaxParts    == 3      \* parts in the content of a candidate
MaxHistory  == 1      \* ChatMessages in a request's history

(***************************************************************************)
(* Python helpers                                                          *)
(***************************************************************************)
None == <<>>
Some(x) == <<x>>
Get(o) == o[1]

\* bool(s) for an Optional[str]
StrTruthy(o) == o # None /\ Get(o) # ""

SeqsUpTo(S, n) == UNION {[1..k -> S] : k \in 0..n}

(***************************************************************************)
(* Input domains                                                           *)
(***************************************************************************)
Clients == {"c1", "c2"}

\* os.getenv("GEMINI_API_KEY"): unset, set to the empty string, or set
EnvValues == {None, Some(""), Some("key-A")}

ChatMessages == {[role |-> "user", text |-> "hello"]}
Histories == SeqsUpTo(ChatMessages, MaxHistory)
Messages == {"", "Set pixel clock to 148500 kHz"}

\* request bodies that pass GeminiRequest validation
GeminiRequests == {[history |-> h, message |-> m] : h \in Histories, m \in Messages}

NoBody == [history |-> <<>>, message |-> ""]

\* an incoming HTTP request; well_formed says whether the JSON body parses
\* as a GeminiRequest (lines 64-67, 99)
HttpRequests ==
    {[path |-> "/health", well_formed |-> TRUE, body |-> NoBody],
     [path |-> "/", well_formed |-> TRUE, body |-> NoBody],
     [path |-> "/api/gemini/analyze", well_formed |-> FALSE, body |-> NoBody]}
    \cup {[path |-> "/api/gemini/analyze", well_formed |-> TRUE, body |-> b] : b \in GeminiRequests}

\* ---- what the Gemini service may send back ----
ArgsA == {<<"pixelClock", 148500>>}
ArgsB == {<<"pixelClock", 74250>>, <<"refreshRate", 60>>}

FunctionCallPart(name, args) ==
    [has_function_call |-> TRUE, function_call |-> Some([name |-> name, args |-> args])]
\* a Part whose function_call field is None (a text part)
TextPart == [has_function_call |-> TRUE, function_call |-> None]
\* an object without a function_call attribute at all
BarePart == [has_function_call |-> FALSE, function_call |-> None]

PartValues ==
    {TextPart, BarePart,
     FunctionCallPart(Some("updateEdidForm"), Some(ArgsA)),
     FunctionCallPart(Some("updateEdidForm"), Some(ArgsB)),
     FunctionCallPart(Some("updateEdidForm"), None),
     FunctionCallPart(None, Some(ArgsA))}

\* candidate.content is None, or a Content whose parts is None or a list
\* of at most n parts
ContentValues(n) ==
    {None, Some([parts |-> None])}
    \cup {Some([parts |-> Some(ps)]) : ps \in SeqsUpTo(PartValues, n)}

\* response.candidates is None, [] or [candidate]: the call does not set
\* candidate_count (lines 161-165), so the service sends at most one
CandidatesValues(n) ==
    {None, Some(<<>>)} \cup {Some(<<[content |-> c]>>) : c \in ContentValues(n)}

TextValues == {None, Some("Done")}

ResponsesWithParts(n) ==
    {[text |-> t, candidates |-> cs] : t \in TextValues, cs \in CandidatesValues(n)}

GenerateContentResponses == ResponsesWithParts(MaxParts)
ShortResponses == ResponsesWithParts(1)

\* str(e) of an exception raised by client.models.generate_content
UpstreamErrors == {"429 RESOURCE_EXHAUSTED"}

(***************************************************************************)
(* Process start: module-level code, lines 41-51                           *)
(***************************************************************************)
UnboundClient == [kind |-> "unbound", api_key |-> ""]   \* the name client was never assigned
NoneClient    == [kind |-> "None", api_key |-> ""]      \* client = None, line 51
Client(api_key) == [kind |-> "Client", api_key |-> api_key]   \* genai.Client(api_key=...), line 47

\* the globals after import, given the environment value and whether the
\* Client constructor raises
Startup(env_value, ctor_raises) ==
    IF ~StrTruthy(env_value)
    THEN [GEMINI_API_KEY |-> env_value, client |-> UnboundClient]
    ELSE IF ctor_raises
         THEN [GEMINI_API_KEY |-> env_value, client |-> NoneClient]
         ELSE [GEMINI_API_KEY |-> env_value, client |-> Client(Get(env_value))]

(***************************************************************************)
(* Responses                                                               *)
(***************************************************************************)
NoRequest == [path |-> "", well_formed |-> TRUE, body |-> NoBody]
NoReply == [raised |-> FALSE, reason |-> "", text |-> None, candidates |-> None]
NoResponse == [status_code |-> 0]

HTTPException(status_code, detail) == [status_code |-> status_code, detail |-> detail]
Ok(body) == [status_code |-> 200, body |-> body]

NotConfiguredDetail == "Gemini API not configured. Please set GEMINI_API_KEY environment variable."
FailedPrefix == "Failed to process request with Gemini AI: "

\* an exception that leaves the handler is answered by the framework
InternalServerError == HTTPException(500, "Internal Server Error")
\* the request-parsing layer rejects a body that is not a GeminiRequest
UnprocessableEntity == HTTPException(422, "field required")

(***************************************************************************)
(* GET /health, lines 86-95                                                *)
(***************************************************************************)
health_check_body(key) ==
    [status |-> "healthy",
     service |-> "edid-calculator-backend",
     gemini_configured |-> (key # None)]

(***************************************************************************)
(* GET /, lines 201-211                                                    *)
(***************************************************************************)
root_body ==
    [service |-> "EDID Calculator Backend",
     status |-> "running",
     endpoints |-> [health |-> "/health", gemini_proxy |-> "/api/gemini/analyze"]]

(***************************************************************************)
(* POST /api/gemini/analyze, lines 98-198                                  *)
(***************************************************************************)
\* line 108 testing the key as /health does (is None)
NotConfigured_KeyIsNone(key, cl) ==
    IF key = None THEN "yes"
    ELSE IF cl.kind = "unbound" THEN "NameError"
    ELSE IF cl.kind = "None" THEN "yes"
    ELSE "no"

\* line 108 without its second operand (or not client)
NotConfigured_KeyOnly(key, cl) ==
    IF ~StrTruthy(key) THEN "yes" ELSE "no"

\* line 108: not GEMINI_API_KEY or not client.  The or short-circuits, so
\* client is read only when the key is truthy; reading an unbound name
\* raises NameError.
NotConfigured(key, cl) ==
    IF ~StrTruthy(key) THEN "yes"
    ELSE IF cl.kind = "unbound" THEN "NameError"
    ELSE IF cl.kind = "None" THEN "yes"
    ELSE "no"

Property(name, type, description) == [name |-> name, type |-> type, description |-> description]

\* lines 118-155
update_edid_form ==
    [name |-> "updateEdidForm",
     description |-> "Updates the EDID parameter form with the provided values. Use this when the user provides specific timing or color information to populate the form.",
     parameters |->
       [type |-> "object",
        properties |->
          {Property("displayName", "string", "The name of the display monitor."),
           Property("pixelClock", "number", "Pixel clock in kHz."),
           Property("hAddressable", "number", "Horizontal addressable pixels."),
           Property("hBlanking", "number", "Horizontal blanking pixels."),
           Property("vAddressable", "number", "Vertical addressable lines."),
           Property("vBlanking", "number", "Vertical blanking lines."),
           Property("refreshRate", "number", "The vertical refresh rate in Hz."),
           Property("hFrontPorch", "number", "Horizontal front porch pixels."),
           Property("hSyncWidth", "number", "Horizontal sync width pixels."),
           Property("vFrontPorch", "number", "Vertical front porch lines."),
           Property("vSyncWidth", "number", "Vertical sync width lines."),
           Property("hImageSize", "number", "Horizontal image size in mm."),
           Property("vImageSize", "number", "Vertical image size in mm."),
           Property("hBorder", "number", "Horizontal border pixels."),
           Property("vBorder", "number", "Vertical border lines."),
           Property("colorimetry", "object", "CIE 1931 color characteristics.")},
        colorimetry_properties |->
          {Property("redX", "number", "CIE 1931 'x' coordinate for the red primary color."),
           Property("redY", "number", "CIE 1931 'y' coordinate for the red primary color."),
           Property("greenX", "number", "CIE 1931 'x' coordinate for the green primary color."),
           Property("greenY", "number", "CIE 1931 'y' coordinate for the green primary color."),
           Property("blueX", "number", "CIE 1931 'x' coordinate for the blue primary color."),
           Property("blueY", "number", "CIE 1931 'y' coordinate for the blue primary color."),
           Property("whiteX", "number", "CIE 1931 'x' coordinate for the display's white point."),
           Property("whiteY", "number", "CIE 1931 'y' coordinate for the display's white point.")}]]

\* line 162 (the source's backquotes around updateEdidForm are written as
\* apostrophes: a TLA+ string cannot hold a backquote)
system_instruction ==
    "You are an expert assistant for embedded systems engineers, specializing in display timings and the EDID specification. Your name is 'Eddy'. Answer questions clearly, concisely, and accurately to help users understand the complexities of display standards. When a user provides EDID, timing, or colorimetry information, use the 'updateEdidForm' tool to populate the form fields. Inform the user that you have updated the form."

\* lines 158-166 with the history joined into the contents
generate_content_call_with_history(cl, request) ==
    [api_key |-> cl.api_key,
     model |-> "gemini-2.0-flash-exp",
     contents |-> IF request.history = <<>> THEN request.message
                  ELSE request.history[1].text \o " " \o request.message,
     config |->
       [system_instruction |-> system_instruction,
        tools |-> <<[function_declarations |-> <<update_edid_form>>]>>,
        temperature |-> [num |-> 7, den |-> 10]]]

\* lines 158-166: the arguments of client.models.generate_content; the
\* temperature 0.7 is kept exact as a fraction
generate_content_call(cl, request) ==
    [api_key |-> cl.api_key,
     model |-> "gemini-2.0-flash-exp",
     contents |-> request.message,
     config |->
       [system_instruction |-> system_instruction,
        tools |-> <<[function_declarations |-> <<update_edid_form>>]>>,
        temperature |-> [num |-> 7, den |-> 10]]]

Return(v) == [raised |-> FALSE, reason |-> "", value |-> v]
Raise(reason) == [raised |-> TRUE, reason |-> reason, value |-> None]

\* FunctionCall(name=..., args=...), lines 70-73 and 179-182: name is a
\* required str, so pydantic rejects None; the reason stands for the str()
\* of its ValidationError
FunctionCall(name, args) ==
    IF name = None
    THEN Raise("1 validation error for FunctionCall: name: Input should be a valid string")
    ELSE Return(Some([name |-> Get(name), args |-> args]))

\* lines 176-184 without the break: a later tool-call part overwrites an
\* earlier one
RECURSIVE first_function_call_no_break(_, _)
first_function_call_no_break(parts, i) ==
    IF i > Len(parts) THEN Return(None)
    ELSE LET part == parts[i]
             later == first_function_call_no_break(parts, i + 1)
         IN IF part.has_function_call /\ part.function_call # None
            THEN LET fc == Get(part.function_call)
                     this == FunctionCall(fc.name,
                                 IF fc.args # None /\ Get(fc.args) # {} THEN Get(fc.args) ELSE {})
                 IN IF this.raised THEN this
                    ELSE IF later.raised \/ later.value # None THEN later
                    ELSE this
            ELSE later

\* lines 176-184: the loop over the parts, from index i on
RECURSIVE first_function_call(_, _)
first_function_call(parts, i) ==
    IF i > Len(parts) THEN Return(None)
    ELSE LET part == parts[i] IN
         IF part.has_function_call /\ part.function_call # None
         THEN LET fc == Get(part.function_call) IN
              FunctionCall(fc.name,
                           IF fc.args # None /\ Get(fc.args) # {} THEN Get(fc.args) ELSE {})
         ELSE first_function_call(parts, i + 1)

\* lines 172-184 with function_call starting as an empty FunctionCall
\* instead of None
extract_function_call_default(response) ==
    LET default == Return(Some([name |-> "updateEdidForm", args |-> {}])) IN
    IF response.candidates # None /\ Len(Get(response.candidates)) > 0
    THEN LET candidate == Get(response.candidates)[1] IN
         IF candidate.content # None
            /\ Get(candidate.content).parts # None
            /\ Len(Get(Get(candidate.content).parts)) > 0
         THEN LET found == first_function_call(Get(Get(candidate.content).parts), 1) IN
              IF ~found.raised /\ found.value = None THEN default ELSE found
         ELSE default
    ELSE default

\* lines 172-184
extract_function_call(response) ==
    IF response.candidates # None /\ Len(Get(response.candidates)) > 0
    THEN LET candidate == Get(response.candidates)[1] IN
         IF candidate.content # None
            /\ Get(candidate.content).parts # None
            /\ Len(Get(Get(candidate.content).parts)) > 0
         THEN first_function_call(Get(Get(candidate.content).parts), 1)
         ELSE Return(None)
    ELSE Return(None)

\* line 169
response_text(response) ==
    IF StrTruthy(response.text) THEN Get(response.text) ELSE ""

\* lines 168-198 with a malformed tool-call part skipped instead of raised:
\* the text is returned without its function call
reshape_partial(reply) ==
    IF reply.raised
    THEN HTTPException(500, FailedPrefix \o reply.reason)
    ELSE LET function_call == extract_function_call(reply) IN
         Ok([text |-> response_text(reply),
             functionCall |-> IF function_call.raised THEN None ELSE function_call.value])

\* lines 168-198: what the handler answers once generate_content has
\* returned response or raised
reshape(reply) ==
    IF reply.raised
    THEN HTTPException(500, FailedPrefix \o reply.reason)
    ELSE LET function_call == extract_function_call(reply) IN
         IF function_call.raised
         THEN HTTPException(500, FailedPrefix \o function_call.reason)
         ELSE Ok([text |-> response_text(reply), functionCall |-> function_call.value])

(***************************************************************************)
(* The process                                                             *)
(***************************************************************************)
Init ==
    /\ \E env_value \in EnvValues, ctor_raises \in BOOLEAN :
          \* the constructor runs only when the key is truthy (line 45)
          /\ ctor_raises => StrTruthy(env_value)
          /\ environ = [GEMINI_API_KEY |-> env_value, ctor_raised |-> ctor_raises]
          /\ GEMINI_API_KEY = Startup(env_value, ctor_raises).GEMINI_API_KEY
          /\ client = Startup(env_value, ctor_raises).client
    /\ requests = [c \in Clients |-> [state |-> "idle", queued |-> FALSE, req |-> NoRequest]]
    /\ calls = [c \in Clients |-> <<>>]
    /\ replies = [c \in Clients |-> NoReply]
    /\ responses = [c \in Clients |-> NoResponse]
    /\ served = 0

\* generate_content is a synchronous call inside an async def handler
\* (line 158, no await): while it is outstanding the event loop runs no
\* other handler
event_loop_free == \A c \in Clients : requests[c].state # "in_call"

Respond(c, response) ==
    /\ requests' = [requests EXCEPT ![c].state = "responded"]
    /\ responses' = [responses EXCEPT ![c] = response]

\* an HTTP client that has no request outstanding sends one; queued records
\* that it arrived while a handler was blocked in its outbound call
Receive(c, r) ==
    /\ requests[c].state \in {"idle", "responded"}
    /\ served < MaxRequests
    /\ served' = served + 1
    /\ requests' = [requests EXCEPT ![c] =
                        [state |-> "pending", queued |-> ~event_loop_free, req |-> r]]
    /\ calls' = [calls EXCEPT ![c] = <<>>]
    /\ replies' = [replies EXCEPT ![c] = NoReply]
    /\ responses' = [responses EXCEPT ![c] = NoResponse]
    /\ UNCHANGED <<environ, GEMINI_API_KEY, client>>

\* lines 86-95
health_check(c) ==
    /\ requests[c].state = "pending"
    /\ requests[c].req.path = "/health"
    /\ event_loop_free
    /\ Respond(c, Ok(health_check_body(GEMINI_API_KEY)))
    /\ UNCHANGED <<environ, GEMINI_API_KEY, client, calls, replies, served>>

\* lines 201-211
root(c) ==
    /\ requests[c].state = "pending"
    /\ requests[c].req.path = "/"
    /\ event_loop_free
    /\ Respond(c, Ok(root_body))
    /\ UNCHANGED <<environ, GEMINI_API_KEY, client, calls, replies, served>>

\* line 99: a body that is not a GeminiRequest never reaches the handler
validation_error(c) ==
    /\ requests[c].state = "pending"
    /\ requests[c].req.path = "/api/gemini/analyze"
    /\ ~requests[c].req.well_formed
    /\ event_loop_free
    /\ Respond(c, UnprocessableEntity)
    /\ UNCHANGED <<environ, GEMINI_API_KEY, client, calls, replies, served>>

\* lines 108-166: the handler up to the point where generate_content has
\* been called
analyze_with_gemini(c) ==
    /\ requests[c].state = "pending"
    /\ requests[c].req.path = "/api/gemini/analyze"
    /\ requests[c].req.well_formed
    /\ event_loop_free
    /\ CASE NotConfigured(GEMINI_API_KEY, client) = "yes" ->
              /\ Respond(c, HTTPException(500, NotConfiguredDetail))
              /\ UNCHANGED calls
         [] NotConfigured(GEMINI_API_KEY, client) = "NameError" ->
              /\ Respond(c, InternalServerError)
              /\ UNCHANGED calls
         [] OTHER ->
              /\ requests' = [requests EXCEPT ![c].state = "in_call"]
              /\ calls' = [calls EXCEPT ![c] =
                              Append(@, generate_content_call(client, requests[c].req.body))]
              /\ UNCHANGED responses
    /\ UNCHANGED <<environ, GEMINI_API_KEY, client, replies, served>>

\* the handler reshaping the reply most recently kept by another request
\* (a reply held in a variable shared between handlers)
generate_content_returns_shared(c, response) ==
    /\ requests[c].state = "in_call"
    /\ LET reply == [raised |-> FALSE, reason |-> "",
                     text |-> response.text, candidates |-> response.candidates]
           others == {d \in Clients \ {c} :
                        requests[d].state = "responded" /\ calls[d] # <<>>}
       IN /\ replies' = [replies EXCEPT ![c] = reply]
          /\ Respond(c, IF others = {} THEN reshape(reply)
                        ELSE reshape(replies[CHOOSE d \in others : TRUE]))
    /\ UNCHANGED <<environ, GEMINI_API_KEY, client, calls, served>>

\* lines 166-191 and 193-198: generate_content returns a response
generate_content_returns(c, response) ==
    /\ requests[c].state = "in_call"
    /\ LET reply == [raised |-> FALSE, reason |-> "",
                     text |-> response.text, candidates |-> response.candidates] IN
         /\ replies' = [replies EXCEPT ![c] = reply]
         /\ Respond(c, reshape(reply))
    /\ UNCHANGED <<environ, GEMINI_API_KEY, client, calls, served>>

\* the except branch retrying the call once before giving up
generate_content_raises_retry(c, reason) ==
    /\ requests[c].state = "in_call"
    /\ IF Len(calls[c]) < 2
       THEN /\ calls' = [calls EXCEPT ![c] =
                            Append(@, generate_content_call(client, requests[c].req.body))]
            /\ UNCHANGED <<requests, replies, responses>>
       ELSE /\ replies' = [replies EXCEPT ![c] =
                              [raised |-> TRUE, reason |-> reason,
                               text |-> None, candidates |-> None]]
            /\ Respond(c, HTTPException(500, FailedPrefix \o reason))
            /\ UNCHANGED calls
    /\ UNCHANGED <<environ, GEMINI_API_KEY, client, served>>

\* lines 166 and 193-198: generate_content raises
generate_content_raises(c, reason) ==
    /\ requests[c].state = "in_call"
    /\ LET reply == [raised |-> TRUE, reason |-> reason,
                     text |-> None, candidates |-> None] IN
         /\ replies' = [replies EXCEPT ![c] = reply]
         /\ Respond(c, reshape(reply))
    /\ UNCHANGED <<environ, GEMINI_API_KEY, client, calls, served>>

\* one step of the process serving the HTTP clients CS, the Gemini service
\* answering from RS
Step(CS, RS) ==
    \/ \E c \in CS, r \in HttpRequests : Receive(c, r)
    \/ \E c \in CS : health_check(c)
    \/ \E c \in CS : root(c)
    \/ \E c \in CS : validation_error(c)
    \/ \E c \in CS : analyze_with_gemini(c)
    \/ \E c \in CS, response \in RS : generate_content_returns(c, response)
    \/ \E c \in CS, reason \in UpstreamErrors : generate_content_raises(c, reason)

\* two HTTP clients with requests outstanding at the same time; replies
\* with at most one part
Next == Step(Clients, ShortResponses)

Spec == Init /\ [][Next]_vars

\* one HTTP client; replies with up to MaxParts parts
NextParts == Step({"c1"}, GenerateContentResponses)

SpecParts == Init /\ [][NextParts]_vars

(***************************************************************************)
(* Vocabulary of the properties                                            *)
(***************************************************************************)
\* c's outstanding request is an Analyze request with a valid body
IsAnalyze(c) ==
    requests[c].req.path = "/api/gemini/analyze" /\ requests[c].req.well_formed

IsHealth(c) == requests[c].req.path = "/health"

Responded(c) == requests[c].state = "responded"

\* the credential environment value was non-empty at process start
CredentialConfigured == environ.GEMINI_API_KEY # None /\ Get(environ.GEMINI_API_KEY) # ""

\* the server error for missing configuration
IsNotConfiguredError(response) ==
    /\ response.status_code = 500
    /\ response.detail = "Gemini API not configured. Please set GEMINI_API_KEY environment variable."

(***************************************************************************)
(* C1: if no credential is configured at process start, an Analyze request *)
(* with a valid body never has an outbound call issued for it, and its     *)
(* response is always the HTTP 500 for missing configuration.              *)
(***************************************************************************)
C1_NoCredentialNoCall ==
    ~CredentialConfigured =>
        \A c \in Clients :
            IsAnalyze(c) =>
                /\ calls[c] = <<>>
                /\ requests[c].state # "in_call"
                /\ Responded(c) => IsNotConfiguredError(responses[c])

\* an Analyze request was answered in a process started with the key unset,
\* and one in a process started with the key set to the empty string
C1_Witness_Unset ==
    /\ environ.GEMINI_API_KEY = None
    /\ \E c \in Clients : IsAnalyze(c) /\ Responded(c)

C1_Witness ==
    /\ environ.GEMINI_API_KEY = Some("")
    /\ \E c \in Clients : IsAnalyze(c) /\ Responded(c)

(***************************************************************************)
(* C2 as stated: for every valid Analyze request handled with a configured *)
(* credential, exactly one outbound call has been issued when it responds. *)
(***************************************************************************)
C2_Original ==
    CredentialConfigured =>
        \A c \in Clients :
            IsAnalyze(c) =>
                /\ Len(calls[c]) <= 1
                /\ Responded(c) => Len(calls[c]) = 1

(***************************************************************************)
(* C2 amended: for every valid Analyze request handled with a configured   *)
(* credential and a client that was constructed at startup, exactly one    *)
(* outbound call has been issued when it responds, whether the call        *)
(* returned or raised; at no time has a second call been issued.           *)
(***************************************************************************)
C2_ExactlyOneCall ==
    (CredentialConfigured /\ ~environ.ctor_raised) =>
        \A c \in Clients :
            IsAnalyze(c) =>
                /\ Len(calls[c]) <= 1
                /\ requests[c].state = "in_call" => Len(calls[c]) = 1
                /\ Responded(c) => Len(calls[c]) = 1

\* an Analyze request whose outbound call raised has been answered, while
\* another whose call returned has been answered too
C2_Witness ==
    /\ CredentialConfigured /\ ~environ.ctor_raised
    /\ \E c, d \in Clients :
          /\ IsAnalyze(c) /\ Responded(c) /\ replies[c].raised
          /\ IsAnalyze(d) /\ Responded(d) /\ ~replies[d].raised

(***************************************************************************)
(* C5 as stated: GET /health answers gemini_configured: true if and only   *)
(* if the credential environment value was non-empty at startup.           *)
(***************************************************************************)
C5_HealthIffNonEmpty ==
    \A c \in Clients :
        (IsHealth(c) /\ Responded(c)) =>
            (responses[c].body.gemini_configured <=> CredentialConfigured)

(***************************************************************************)
(* C6: two valid Analyze requests with the same message produce identical  *)
(* outbound calls, whatever their histories.                               *)
(***************************************************************************)
C6_CallDependsOnMessageOnly ==
    \A c, d \in Clients :
        (/\ IsAnalyze(c) /\ IsAnalyze(d)
         /\ calls[c] # <<>> /\ calls[d] # <<>>
         /\ requests[c].req.body.message = requests[d].req.body.message)
        => calls[c] = calls[d]

\* two requests with the same message and different histories both had
\* their call issued
C6_Witness ==
    \E c, d \in Clients :
        /\ IsAnalyze(c) /\ IsAnalyze(d)
        /\ calls[c] # <<>> /\ calls[d] # <<>>
        /\ requests[c].req.body.message = requests[d].req.body.message
        /\ requests[c].req.body.history # requests[d].req.body.history

(***************************************************************************)
(* C10 as stated: whenever /health reports gemini_configured: true, a      *)
(* valid Analyze request is not rejected with the 'Gemini API not          *)
(* configured' error.                                                      *)
(***************************************************************************)
C10_HealthAgreesWithAnalyze ==
    \A c, d \in Clients :
        (/\ IsHealth(c) /\ Responded(c) /\ responses[c].body.gemini_configured
         /\ IsAnalyze(d) /\ Responded(d))
        => ~IsNotConfiguredError(responses[d])

(***************************************************************************)
(* The tool-call parts of a reply, stated without the handler's loop       *)
(***************************************************************************)
\* the parts of the reply, in reply order (none when the reply has no
\* candidates, no content or no parts)
ReplyParts(reply) ==
    IF reply.candidates = None \/ Get(reply.candidates) = <<>> THEN <<>>
    ELSE LET content == Get(reply.candidates)[1].content IN
         IF content = None THEN <<>>
         ELSE IF Get(content).parts = None THEN <<>>
         ELSE Get(Get(content).parts)

\* positions of the parts that carry a tool call
ToolCallIndexes(parts) ==
    {i \in DOMAIN parts : parts[i].has_function_call /\ parts[i].function_call # None}

Min(S) == CHOOSE i \in S : \A j \in S : i <= j

\* c's Analyze request was answered from a reply the service returned
AnsweredFromReply(c) ==
    IsAnalyze(c) /\ Responded(c) /\ calls[c] # <<>> /\ ~replies[c].raised

(***************************************************************************)
(* C3: if the reply contains two or more tool-call parts, the functionCall *)
(* of the AnalyzeResponse carries the name and the arguments of the first  *)
(* of them in reply order (an empty mapping when that part has no          *)
(* arguments); the later ones do not appear.                               *)
(***************************************************************************)
C3_FirstToolCallOnly ==
    \A c \in Clients :
        LET parts == ReplyParts(replies[c])
            idx == ToolCallIndexes(parts)
        IN (/\ AnsweredFromReply(c)
            /\ responses[c].status_code = 200
            /\ Cardinality(idx) >= 2)
           => LET first == Get(parts[Min(idx)].function_call)
                  surfaced == responses[c].body.functionCall
              IN /\ surfaced # None
                 /\ Some(Get(surfaced).name) = first.name
                 /\ Get(surfaced).args = (IF first.args = None THEN {} ELSE Get(first.args))

\* a reply whose first tool-call part comes after a text part and is
\* followed by a tool-call part with other arguments was answered
C3_Witness ==
    \E c \in Clients :
        LET parts == ReplyParts(replies[c])
            idx == ToolCallIndexes(parts)
        IN /\ AnsweredFromReply(c)
           /\ responses[c].status_code = 200
           /\ Cardinality(idx) >= 2
           /\ Min(idx) > 1
           /\ \E j \in idx :
                 Get(parts[j].function_call).args # Get(parts[Min(idx)].function_call).args

(***************************************************************************)
(* C4: if the reply contains no tool-call part (no candidates, no content, *)
(* no parts, or only parts without a tool call), the successful            *)
(* AnalyzeResponse has functionCall null.                                  *)
(***************************************************************************)
C4_NoToolCallNullFunctionCall ==
    \A c \in Clients :
        (/\ AnsweredFromReply(c)
         /\ responses[c].status_code = 200
         /\ ToolCallIndexes(ReplyParts(replies[c])) = {})
        => responses[c].body.functionCall = None

\* a reply with two parts, neither a tool call, was answered successfully
C4_Witness ==
    \E c \in Clients :
        /\ AnsweredFromReply(c)
        /\ responses[c].status_code = 200
        /\ Len(ReplyParts(replies[c])) >= 2
        /\ ToolCallIndexes(ReplyParts(replies[c])) = {}

(***************************************************************************)
(* C7: with a configured credential an answered Analyze request either     *)
(* fully succeeds or fully fails.  If the outbound call raised, or the     *)
(* first tool-call part of the reply is malformed (no name), the response  *)
(* is HTTP 500 and its detail carries the stringified reason; otherwise a  *)
(* 200 response carries the reply's text (or "") together with the         *)
(* function call of the reply (null exactly when the reply has no          *)
(* tool-call part): no response has the text without its function call.    *)
(***************************************************************************)
C7_AllOrNothing ==
    CredentialConfigured =>
        \A c \in Clients :
            (IsAnalyze(c) /\ Responded(c)) =>
                LET parts == ReplyParts(replies[c])
                    idx == ToolCallIndexes(parts)
                    response == responses[c]
                IN IF calls[c] = <<>>
                   THEN IsNotConfiguredError(response)
                   ELSE IF replies[c].raised
                   THEN /\ response.status_code = 500
                        /\ response.detail =
                             "Failed to process request with Gemini AI: " \o replies[c].reason
                   ELSE IF idx # {} /\ Get(parts[Min(idx)].function_call).name = None
                   THEN /\ response.status_code = 500
                        /\ response.detail =
                             "Failed to process request with Gemini AI: "
                             \o "1 validation error for FunctionCall: name: Input should be a valid string"
                   ELSE /\ response.status_code = 200
                        /\ response.body.text =
                             (IF replies[c].text = None THEN "" ELSE Get(replies[c].text))
                        /\ (response.body.functionCall = None) <=> (idx = {})

\* a reply with text and a malformed first tool-call part was answered
C7_Witness ==
    /\ CredentialConfigured
    /\ \E c \in Clients :
          LET parts == ReplyParts(replies[c])
              idx == ToolCallIndexes(parts)
          IN /\ AnsweredFromReply(c)
             /\ replies[c].text # None
             /\ idx # {}
             /\ Get(parts[Min(idx)].function_call).name = None

(***************************************************************************)
(* C8: a configuration error is not recoverable at runtime.  No step of    *)
(* the process changes the credential or the client, and if at startup the *)
(* credential was absent or the client construction failed, every answered *)
(* Analyze request has the server error for missing configuration, after   *)
(* any sequence of requests.                                               *)
(***************************************************************************)
C8_NotRecoverable ==
    /\ [][GEMINI_API_KEY' = GEMINI_API_KEY /\ client' = client]_vars
    /\ []((~CredentialConfigured \/ environ.ctor_raised) =>
            \A c \in Clients :
                IsAnalyze(c) =>
                    /\ requests[c].state # "in_call"
                    /\ Responded(c) => IsNotConfiguredError(responses[c]))

\* in a process whose client construction failed, an Analyze request was
\* answered after a health request and another request had been served
C8_Witness ==
    /\ environ.ctor_raised
    /\ served >= 3
    /\ \E c, d \in Clients :
          /\ IsAnalyze(c) /\ Responded(c)
          /\ IsHealth(d) /\ Responded(d)

====
